---- MODULE Spec2Model ----
(***************************************************************************)
(* A model of the Blockchain class of src/src/blockchain.js: the chain     *)
(* array, the height counter, the promises returned by submitStar and      *)
(* _addBlock, and the suspension points (await) at which the calls of      *)
(* several callers interleave.                                             *)
(*                                                                         *)
(* JavaScript runs one job at a time: the code between two awaits is one   *)
(* atomic step.  submitStar has no await, so one call is one step that     *)
(* also runs _addBlock up to its `await this.validateChain()`.  The        *)
(* validateChain walk awaits curBlock.validate() once per block; the       *)
(* continuation after the walk commits the block or rejects.               *)
(***************************************************************************)
EXTENDS Integers, Sequences, FiniteSets, TLC

VARIABLES chain, height, now, appends, calls, audit, pristine, read

vars == <<chain, height, now, appends, calls, audit, pristine, read>>

-----------------------------------------------------------------------------
(* Bounds of the model *)

\* submitStar calls made on the one Blockchain object
MaxCalls == 2
\* seconds the wall clock advances during the run
MaxTicks == 1
\* external corruptions of a committed block (SpecTamper only)
MaxTamper == 1
\* public validateChain() calls
MaxAudits == 1

\* the wall clock (unix seconds) when the Blockchain is constructed
StartTime == 1000
\* the 5-minute window of the documentation, in seconds (5*60 = 300)
FreshnessWindow == 300

Addresses == {"a1", "a2"}
Stars == {"s1"}
\* seconds between the issue of a challenge and its submission
ElapsedChoices == {1, FreshnessWindow + 1}

-----------------------------------------------------------------------------
(* JavaScript values *)

\* a JS number is <<v>>; NaN is <<>>
NaN == <<>>
Num(v) == <<v>>

\* a - b on JS numbers: NaN if either is NaN
JsMinus(a, b) == IF a = NaN \/ b = NaN THEN NaN ELSE Num(a[1] - b[1])

\* The literal of line 140, 30000000000000000000000000000 = 3 * 10^28, is
\* beyond the integers of the checker; d > 3 * 10^28 is computed on integers
\* as floor((d - 1) / 10^28) >= 3, the division done in four steps.
ExceedsLiteral(d) ==
    /\ d >= 1
    /\ ((((d - 1) \div 1000000000) \div 1000000000) \div 1000000000) \div 10 >= 3

\* curTime - msgTime > 30000000000000000000000000000; any comparison with NaN is false
ElapsedTooLong(elapsed) == elapsed # NaN /\ ExceedsLiteral(elapsed[1])

\* a message is the sequence of its colon-delimited fields (message.split(':'));
\* a field is [digits |-> n] (a decimal numeral) or [text |-> s]
Challenge(address, t) == << [text |-> address], [digits |-> t], [text |-> "starRegistry"] >>

\* parseInt(message.split(':')[1]): NaN when there is no second field or it is
\* not a numeral
MsgTime(message) ==
    IF Len(message) < 2 THEN NaN
    ELSE IF "digits" \in DOMAIN message[2] THEN Num(message[2].digits)
    ELSE NaN

\* <address>:<unixSeconds>:starRegistry
WellFormed(message) ==
    /\ Len(message) = 3
    /\ "text" \in DOMAIN message[1]
    /\ "digits" \in DOMAIN message[2]
    /\ message[3] = [text |-> "starRegistry"]

\* a signature made by a wallet is [signer, message]; <<>> is a string that is
\* no signature at all
Sign(signer, message) == << [signer |-> signer, message |-> message] >>
Garbage == <<>>

\* bitcoinMessage.verify(message, address, signature): "throw" on a signature
\* it cannot decode, else whether the signature is one of message by address
Verify(message, address, signature) ==
    IF signature = Garbage THEN "throw"
    ELSE IF signature[1].signer = address /\ signature[1].message = message THEN "true"
    ELSE "false"

-----------------------------------------------------------------------------
(* Blocks *)

NoHash == <<>>

\* SHA256(JSON.stringify(block)) with block.hash still null: a collision-free
\* digest of the other four fields
Digest(height_, time_, prev_, body_) == <<height_, time_, prev_, body_>>

\* new Block(data): the body is the encoded data; hash and previousBlockHash
\* null, height and time 0.  id is the identity of the JS object.
NewBlock(id, data) ==
    [id |-> id, hash |-> NoHash, height |-> 0, body |-> [hex |-> data],
     time |-> 0, previousBlockHash |-> NoHash]

\* block.validate(): the digest recomputed from the current fields equals the
\* stored hash
Validate(b) == b.hash = Digest(b.height, b.time, b.previousBlockHash, b.body)

GenesisData == [data |-> "Genesis Block"]
StarData(address, star) == [owner |-> address, star |-> star]

\* a bug that seals with the current height instead of the next one
SealNoIncrement(block, h, ch, t) ==
    LET prev == IF Len(ch) > 0 THEN ch[Len(ch)].hash ELSE NoHash
    IN  [block EXCEPT !.height = h, !.time = t, !.previousBlockHash = prev,
                      !.hash = Digest(h, t, prev, block.body)]

\* _addBlock, lines 68-79: height, time, previousBlockHash, then the hash
Seal(block, h, ch, t) ==
    LET prev == IF Len(ch) > 0 THEN ch[Len(ch)].hash ELSE NoHash
    IN  [block EXCEPT !.height = h + 1, !.time = t, !.previousBlockHash = prev,
                      !.hash = Digest(h + 1, t, prev, block.body)]

-----------------------------------------------------------------------------
(* validateChain *)

\* a mutant that checks the linkage against the recomputed digest of the
\* previous block instead of its stored hash
CheckBlockRecomputeMutant(ch, i) ==
    (IF Validate(ch[i]) THEN <<>> ELSE << [idx |-> i - 1, msg |-> "Block not valid"] >>)
    \o (IF i # 1 /\ ch[i].previousBlockHash #
                    Digest(ch[i-1].height, ch[i-1].time, ch[i-1].previousBlockHash, ch[i-1].body)
        THEN << [idx |-> i - 1, msg |-> "Incompatible previous hash"] >>
        ELSE <<>>)

\* a bug that checks the linkage only of a block that passed its self-check
\* (else if)
CheckBlockElseIf(ch, i) ==
    IF ~Validate(ch[i]) THEN << [idx |-> i - 1, msg |-> "Block not valid"] >>
    ELSE IF i # 1 /\ ch[i].previousBlockHash # ch[i-1].hash
    THEN << [idx |-> i - 1, msg |-> "Incompatible previous hash"] >>
    ELSE <<>>

\* one iteration of the loop of validateChain, for the block at (1-based)
\* position i: the errors it pushes.  idx is the block's JS index (a ghost:
\* the Error objects carry only the message).
CheckBlock(ch, i) ==
    (IF Validate(ch[i]) THEN <<>> ELSE << [idx |-> i - 1, msg |-> "Block not valid"] >>)
    \o (IF i # 1 /\ ch[i].previousBlockHash # ch[i-1].hash
        THEN << [idx |-> i - 1, msg |-> "Incompatible previous hash"] >>
        ELSE <<>>)

RECURSIVE WalkFrom(_, _)
WalkFrom(ch, i) == IF i > Len(ch) THEN <<>> ELSE CheckBlock(ch, i) \o WalkFrom(ch, i + 1)

\* the error list validateChain() resolves with when nothing else runs
\* during its walk
ValidateChain(ch) == WalkFrom(ch, 1)

-----------------------------------------------------------------------------
(* Promises *)

Pending == [state |-> "pending", error |-> "none"]
Rejected(e) == [state |-> "rejected", error |-> e]
Resolved == [state |-> "resolved", error |-> "none"]

\* resolve() and reject() settle a pending promise and do nothing to a
\* settled one
Settle(p, outcome) == IF p.state = "pending" THEN outcome ELSE p

\* a bug that forgets the reject of line 159
SubmitStarPromiseNoReject(elapsed, verdict) ==
    LET p1 == IF ElapsedTooLong(elapsed) THEN Settle(Pending, Rejected("expired")) ELSE Pending
        p2 == IF verdict = "throw" THEN Settle(p1, Rejected("throw")) ELSE p1
    IN  Settle(p2, Resolved)

\* the promise of submitStar, lines 131-167: no reject is followed by a
\* return, so every call runs on to resolve(newBlock)
SubmitStarPromise(elapsed, verdict) ==
    LET p1 == IF ElapsedTooLong(elapsed) THEN Settle(Pending, Rejected("expired")) ELSE Pending
        p2 == IF verdict = "throw" THEN Settle(p1, Rejected("throw")) ELSE p1
        p3 == IF verdict # "true" THEN Settle(p2, Rejected("invalid")) ELSE p2
    IN  Settle(p3, Resolved)

-----------------------------------------------------------------------------
(* State *)

\* an _addBlock in flight: the sealed block, the keys `for (let idx in
\* self.chain)` enumerates (taken when the loop starts), the next index to
\* visit, the error log, and the state of the promise _addBlock returned
StartAppend(block, ch) ==
    [block |-> block, n |-> Len(ch), idx |-> 0, errs |-> <<>>, st |-> "validating"]

GenesisBlock == Seal(NewBlock(0, GenesisData), -1, <<>>, StartTime)

\* a validateChain() call made by a caller.  target is a ghost: the position
\* of the one corrupted block when the call is made on a chain that was sound
\* before that corruption, else 0
IdleAudit == [st |-> "idle", n |-> 0, idx |-> 0, errs |-> <<>>, count |-> 0, target |-> 0]

\* the last read a caller made: the operation, its argument, where its loop
\* is suspended, what it collected and the promise it returned
IdleRead == [op |-> "none", st |-> "idle", arg |-> "none", i |-> 0, out |-> <<>>,
             promise |-> Pending]

\* the state when `new Blockchain()` returns: initializeChain has run
\* _addBlock(genesis) up to its await
Init ==
    /\ chain = <<>>
    /\ height = -1
    /\ now = StartTime
    /\ appends = << StartAppend(GenesisBlock, <<>>) >>
    /\ calls = <<>>
    /\ audit = IdleAudit
    /\ pristine = <<>>
    /\ read = IdleRead

-----------------------------------------------------------------------------
(* Actions *)

\* the readings `new Date()` may give from now on: the wall clock does not
\* run backwards.  now is the last reading.
ClockReadings == now..(StartTime + MaxTicks)

\* the messages a caller may send for address at time t: a challenge issued
\* some seconds earlier, or one whose second field is no number
Messages(address, t) ==
    {Challenge(address, t - e) : e \in ElapsedChoices}
    \cup { << [text |-> address], [text |-> "soon"], [text |-> "starRegistry"] >> }

Signatures(message) == {Sign(a, message) : a \in Addresses} \cup {Garbage}

\* submitStar(address, message, signature, star) called at time t, one
\* synchronous run: the checks, new Block, _addBlock up to its await,
\* resolve(newBlock)
SubmitStar(address, message, signature, star, t) ==
    /\ Len(calls) < MaxCalls
    /\ LET id == Len(calls) + 1
           elapsed == JsMinus(Num(t), MsgTime(message))
           verdict == Verify(message, address, signature)
           newBlock == Seal(NewBlock(id, StarData(address, star)), height, chain, t)
       IN  /\ appends' = Append(appends, StartAppend(newBlock, chain))
           /\ calls' = Append(calls,
                  [address |-> address, message |-> message, star |-> star,
                   at |-> t, verdict |-> verdict, heightBefore |-> height,
                   promise |-> SubmitStarPromise(elapsed, verdict)])
    /\ now' = t
    /\ UNCHANGED <<chain, height, audit, pristine, read>>

\* validateChain inside _addBlock k resumes after `await curBlock.validate()`
\* and finishes the iteration for one block
ValidateStep(k) ==
    /\ appends[k].st = "validating"
    /\ appends[k].idx < appends[k].n
    /\ appends' = [appends EXCEPT ![k].idx = @ + 1,
                                  ![k].errs = @ \o CheckBlock(chain, appends[k].idx + 1)]
    /\ UNCHANGED <<chain, height, now, calls, audit, pristine, read>>

\* the jobs of walks over an empty chain are queued in call order and run in
\* that order
ReadyToResume(k) ==
    /\ appends[k].st = "validating"
    /\ appends[k].idx = appends[k].n
    /\ appends[k].n = 0 => \A j \in 1..(k-1) : appends[j].st # "validating"

\* a bug that pushes without looking at the error list
CommitUnchecked(k) ==
    /\ ReadyToResume(k)
    /\ chain' = Append(chain, appends[k].block)
    /\ pristine' = Append(pristine, appends[k].block)
    /\ height' = appends[k].block.height
    /\ appends' = [appends EXCEPT ![k].st = "resolved"]
    /\ UNCHANGED <<now, calls, audit, read>>

\* a bug that stores the block at the index of its height instead of pushing
CommitAtHeight(k) ==
    /\ ReadyToResume(k)
    /\ appends[k].errs = <<>>
    /\ LET at == appends[k].block.height + 1
       IN  /\ chain' = IF at \in 1..Len(chain)
                        THEN [chain EXCEPT ![at] = appends[k].block]
                        ELSE Append(chain, appends[k].block)
           /\ pristine' = IF at \in 1..Len(chain)
                           THEN [pristine EXCEPT ![at] = appends[k].block]
                           ELSE Append(pristine, appends[k].block)
    /\ height' = appends[k].block.height
    /\ appends' = [appends EXCEPT ![k].st = "resolved"]
    /\ UNCHANGED <<now, calls, audit, read>>

\* _addBlock k resumes after `await this.validateChain()` with an empty
\* error list: push, height, resolve
Commit(k) ==
    /\ ReadyToResume(k)
    /\ appends[k].errs = <<>>
    /\ chain' = Append(chain, appends[k].block)
    /\ pristine' = Append(pristine, appends[k].block)
    /\ height' = appends[k].block.height
    /\ appends' = [appends EXCEPT ![k].st = "resolved"]
    /\ UNCHANGED <<now, calls, audit, read>>

\* _addBlock k resumes with errors: throw, caught, reject
Refuse(k) ==
    /\ ReadyToResume(k)
    /\ appends[k].errs # <<>>
    /\ appends' = [appends EXCEPT ![k].st = "rejected"]
    /\ UNCHANGED <<chain, height, now, calls, audit, pristine, read>>

\* what getChainHeight() resolves with
GetChainHeight == height

\* initializeChain is suspended at `await this._addBlock(block)` until the
\* promise of the Genesis _addBlock is resolved, and completes in a later job
InitializeChainResumable == appends[1].st = "resolved"

\* the positions of the blocks changed from outside since their commit
\* (pristine is a ghost: the chain as the commits made it)
Tampered == {i \in 1..Len(chain) : chain[i] # pristine[i]}

AuditTarget ==
    IF Cardinality(Tampered) = 1 /\ ValidateChain(pristine) = <<>>
    THEN CHOOSE i \in Tampered : TRUE
    ELSE 0

\* a caller calls validateChain(): the loop's keys are taken
AuditStart ==
    /\ audit.st # "walking"
    /\ audit.count < MaxAudits
    /\ audit' = [st |-> IF Len(chain) = 0 THEN "done" ELSE "walking",
                 n |-> Len(chain), idx |-> 0, errs |-> <<>>, count |-> audit.count + 1,
                 target |-> AuditTarget]
    /\ UNCHANGED <<chain, height, now, appends, calls, pristine, read>>

\* that validateChain resumes after `await curBlock.validate()`; after the
\* last block it resolves with the error log
AuditStep ==
    /\ audit.st = "walking"
    /\ audit' = [audit EXCEPT !.idx = @ + 1,
                              !.errs = @ \o CheckBlock(chain, audit.idx + 1),
                              !.st = IF audit.idx + 1 = audit.n THEN "done" ELSE "walking"]
    /\ UNCHANGED <<chain, height, now, appends, calls, pristine, read>>

\* outside the class: the body of a committed block is overwritten and its
\* hash left as it was
ForgedData == [owner |-> "mallory", star |-> "none"]

Tamper(i, data) ==
    /\ i \in 1..Len(chain)
    /\ chain[i] = pristine[i]
    /\ Cardinality(Tampered) < MaxTamper
    /\ chain[i].body # [hex |-> data]
    /\ chain' = [chain EXCEPT ![i].body = [hex |-> data]]
    /\ UNCHANGED <<height, now, appends, calls, audit, pristine, read>>

Next ==
    \/ \E t \in ClockReadings : \E a \in Addresses : \E m \in Messages(a, t) :
          \E s \in Signatures(m) : \E star \in Stars : SubmitStar(a, m, s, star, t)
    \/ \E k \in 1..Len(appends) : ValidateStep(k)
    \/ \E k \in 1..Len(appends) : Commit(k)
    \/ \E k \in 1..Len(appends) : Refuse(k)

NextAudit ==
    \/ Next
    \/ AuditStart
    \/ AuditStep

NextTamper ==
    \/ NextAudit
    \/ \E i \in 1..Len(chain) : Tamper(i, ForgedData)

\* construction and submitStar, with the appends they start
Spec == Init /\ [][Next]_vars

\* the same with callers of validateChain()
SpecAudit == Init /\ [][NextAudit]_vars

\* the public operations and external corruption of committed blocks
SpecTamper == Init /\ [][NextTamper]_vars

-----------------------------------------------------------------------------
(* Reads *)

\* block.getBData(): the data the body encodes
Decode(body) == body.hex

\* a bug that resolves with no block instead of rejecting
GetBlockByHashResultNoReject(ch, h) ==
    LET found == SelectSeq(ch, LAMBDA b : b.hash = h)
    IN  [out |-> IF Len(found) = 0 THEN <<>> ELSE << found[1] >>,
         promise |-> Resolved]

\* getBlockByHash(hash), lines 179-184: the first block of the chain with
\* that hash; reject when there is none (the resolve(block[0]) that follows
\* the reject does nothing)
GetBlockByHashResult(ch, h) ==
    LET found == SelectSeq(ch, LAMBDA b : b.hash = h)
        p1 == IF Len(found) = 0 THEN Settle(Pending, Rejected("Hash not found")) ELSE Pending
    IN  [out |-> IF Len(found) = 0 THEN <<>> ELSE << found[1] >>,
         promise |-> Settle(p1, Resolved)]

\* getBlockByHeight(height), lines 196-201: the first block with that
\* height, or null (no block)
GetBlockByHeightResult(ch, h) ==
    LET found == SelectSeq(ch, LAMBDA b : b.height = h)
    IN  [out |-> IF Len(found) = 0 THEN <<>> ELSE << found[1] >>,
         promise |-> Resolved]

\* the hashes a caller may ask for: those of the blocks built so far,
\* committed or not, and the hash of no block
KnownHashes == {appends[k].block.hash : k \in 1..Len(appends)} \cup {NoHash}

GetBlockByHash(h) ==
    /\ read.st # "walking"
    /\ read' = [op |-> "getBlockByHash", st |-> "done", arg |-> h, i |-> 0,
                out |-> GetBlockByHashResult(chain, h).out,
                promise |-> GetBlockByHashResult(chain, h).promise]
    /\ UNCHANGED <<chain, height, now, appends, calls, audit, pristine>>

GetBlockByHeight(h) ==
    /\ read.st # "walking"
    /\ read' = [op |-> "getBlockByHeight", st |-> "done", arg |-> h, i |-> 0,
                out |-> GetBlockByHeightResult(chain, h).out,
                promise |-> GetBlockByHeightResult(chain, h).promise]
    /\ UNCHANGED <<chain, height, now, appends, calls, audit, pristine>>

\* the loop of getStarsByWalletAddress from position i on, up to its next
\* await: blocks whose height is not > 0 are passed over; the position of
\* the block whose getBData() is awaited, or Len(ch) + 1 at the end
RECURSIVE NextAwait(_, _)
NextAwait(ch, i) ==
    IF i > Len(ch) THEN i
    ELSE IF ch[i].height > 0 THEN i
    ELSE NextAwait(ch, i + 1)

\* getStarsByWalletAddress(address) is called and runs to its first await,
\* or to resolve(stars) when no block has a height > 0
GetStarsStart(address) ==
    /\ read.st # "walking"
    /\ LET i == NextAwait(chain, 1)
       IN  read' = [op |-> "getStars", arg |-> address, i |-> i, out |-> <<>>,
                    st |-> IF i > Len(chain) THEN "done" ELSE "walking",
                    promise |-> IF i > Len(chain) THEN Resolved ELSE Pending]
    /\ UNCHANGED <<chain, height, now, appends, calls, audit, pristine>>

\* it resumes after `await block.getBData()`: the star is pushed when the
\* owner is the address, and the loop runs on over the chain as it is now
GetStarsStep ==
    /\ read.st = "walking"
    /\ LET data == Decode(chain[read.i].body)
           out == IF data.owner = read.arg THEN Append(read.out, data.star) ELSE read.out
           i == NextAwait(chain, read.i + 1)
       IN  read' = [read EXCEPT !.i = i, !.out = out,
                                !.st = IF i > Len(chain) THEN "done" ELSE "walking",
                                !.promise = IF i > Len(chain) THEN Resolved ELSE Pending]
    /\ UNCHANGED <<chain, height, now, appends, calls, audit, pristine>>

NextReads ==
    \/ Next
    \/ \E h \in KnownHashes : GetBlockByHash(h)
    \/ \E h \in -1..MaxCalls : GetBlockByHeight(h)
    \/ \E a \in Addresses : GetStarsStart(a)
    \/ GetStarsStep

\* construction, submitStar and the reads
SpecReads == Init /\ [][NextReads]_vars

-----------------------------------------------------------------------------
(* Properties *)

CallIds == 1..Len(calls)

\* curTime - msgTime of call k
Elapsed(k) == JsMinus(Num(calls[k].at), MsgTime(calls[k].message))

\* the block built by call k is a block of the chain
Committed(k) == \E i \in 1..Len(chain) : chain[i].id = k

\* C1: a submitStar call that fails (its promise rejects: expired challenge,
\* invalid signature, or verification throwing) commits no block: no block
\* built from that call is ever in the chain.
C1_FailedCallCommitsNothing ==
    \A k \in CallIds : calls[k].promise.state = "rejected" => ~Committed(k)

\* C2: a call whose message is more than 300 seconds old is rejected,
\* whatever the signature is.  (The claim adds that the error is the
\* expired-challenge error; the rejection alone already fails.)
C2_ExpiredChallengeRejected ==
    \A k \in CallIds :
        (Elapsed(k) # NaN /\ Elapsed(k)[1] > FreshnessWindow)
            => calls[k].promise.state = "rejected"

\* C3: a call with a fresh, well-formed message whose signature is not a
\* valid signature of the message under the address (verify returns false or
\* throws) has its promise rejected with an error, never resolved.
C3_InvalidSignatureRejects ==
    \A k \in CallIds :
        ( /\ WellFormed(calls[k].message)
          /\ Elapsed(k)[1] <= FreshnessWindow
          /\ calls[k].verdict # "true" )
            => /\ calls[k].promise.state = "rejected"
               /\ calls[k].promise.error \in {"invalid", "throw"}

\* a fresh, well-formed message signed by another wallet has been submitted,
\* and so has one with an undecodable signature
C3_Witness ==
    /\ \E k \in CallIds : /\ WellFormed(calls[k].message)
                          /\ Elapsed(k)[1] <= FreshnessWindow
                          /\ calls[k].verdict = "false"
                          /\ calls[k].promise.state = "rejected"
    /\ \E k \in CallIds : /\ WellFormed(calls[k].message)
                          /\ Elapsed(k)[1] <= FreshnessWindow
                          /\ calls[k].verdict = "throw"

\* C4: a call whose message is not <address>:<unixSeconds>:starRegistry is
\* rejected and its block is not appended, even when the signature is valid.
\* (The claim adds that the error is the malformed-message error; the
\* rejection alone already fails.)
C4_MalformedMessageRejected ==
    \A k \in CallIds :
        ~WellFormed(calls[k].message)
            => /\ calls[k].promise.state = "rejected"
               /\ ~Committed(k)

\* C5: hash linkage: every committed block at index i > 0 has
\* previousBlockHash equal to the hash of the committed block at index i-1.
C5_HashLinkage ==
    \A i \in 2..Len(chain) : chain[i].previousBlockHash = chain[i-1].hash

\* C6: height contiguity: the committed block at index i has height i, and
\* the height counter is the chain length minus 1.
C6_HeightContiguity ==
    /\ \A i \in 1..Len(chain) : chain[i].height = i - 1
    /\ height = Len(chain) - 1

\* C7: every _addBlock that resolves grows the chain by exactly its sealed
\* block, as new tail, and makes the height counter its previous value plus 1.
C7_CommitGrowsByOne ==
    [][ \A k \in 1..Len(appends) :
            (appends[k].st = "validating" /\ appends'[k].st = "resolved")
                => /\ chain' = Append(chain, appends[k].block)
                   /\ height' = height + 1 ]_vars

\* C8: once initializeChain can complete, the chain has at least one block
\* and block 0 is the Genesis Block (height 0, no previousBlockHash, the
\* Genesis body); while no star has been submitted the height is 0 and the
\* Genesis Block is the only block.
C8_GenesisFirst ==
    InitializeChainResumable =>
        /\ Len(chain) >= 1
        /\ chain[1].id = 0
        /\ chain[1].height = 0
        /\ chain[1].previousBlockHash = NoHash
        /\ chain[1].body = [hex |-> GenesisData]
        /\ Validate(chain[1])
        /\ calls = <<>> => (GetChainHeight = 0 /\ Len(chain) = 1)

\* initialization completed before the first star was submitted (its walk
\* saw the Genesis Block), and stars have been committed since
C8_Witness ==
    /\ InitializeChainResumable
    /\ Len(calls) >= 1
    /\ appends[2].n = 1
    /\ Len(chain) >= 2

\* C9: with no tampering, every validateChain() call resolves with an empty
\* error list.
C9_AuditOfUntouchedChainEmpty ==
    audit.st = "done" => audit.errs = <<>>

\* the _addBlock that call k started, and the block the call built
AppendOf(k) == appends[k + 1]
BlockOf(k) == appends[k + 1].block

\* C11: a call with a fresh challenge (elapsed at most 300 seconds) and a
\* valid signature resolves with a block whose height is the height before
\* the call plus 1 and whose body decodes to {owner: address, star: star},
\* and that block becomes the tail of the chain: its append is never refused.
C11_FreshValidAccepted ==
    \A k \in CallIds :
        ( /\ Elapsed(k) # NaN
          /\ Elapsed(k)[1] <= FreshnessWindow
          /\ calls[k].verdict = "true" )
            => /\ calls[k].promise = Resolved
               /\ BlockOf(k).height = calls[k].heightBefore + 1
               /\ Decode(BlockOf(k).body) = StarData(calls[k].address, calls[k].star)
               /\ AppendOf(k).st # "rejected"

\* C10: on a chain that was sound, after the body alone of one committed
\* block b is changed, validateChain() resolves with exactly one error, the
\* self-check error of b: so does a call made after the change, and so would
\* a call made in any such state.
C10_OneIntegrityError ==
    /\ (audit.st = "done" /\ audit.target # 0 /\ Tampered = {audit.target})
          => audit.errs = << [idx |-> audit.target - 1, msg |-> "Block not valid"] >>
    /\ \A i \in 1..Len(chain) :
          (Tampered = {i} /\ ValidateChain(pristine) = <<>>)
              => ValidateChain(chain) = << [idx |-> i - 1, msg |-> "Block not valid"] >>

\* a validateChain() call has finished that was made after the corruption of
\* a block that has a successor
C10_Witness ==
    /\ audit.st = "done"
    /\ audit.target # 0
    /\ audit.target < audit.n
    /\ Tampered = {audit.target}

\* C14: mutual exclusion of append: at most one _addBlock is in flight
\* (between its read of height and tail hash and its commit or failure).
\* Stated for the appends started once the Genesis Block is committed: the
\* overlap with the Genesis append is C15.
C14_OneAppendInFlight ==
    Cardinality({k \in 1..Len(appends) :
                    appends[k].st = "validating" /\ appends[k].n >= 1}) <= 1

\* C15: initialization completes before any other operation: no submitStar
\* runs before the Genesis Block is committed, so no claim block is sealed
\* with height 0 or without a previousBlockHash.
C15_NoClaimBlockBeforeGenesis ==
    \A k \in CallIds :
        /\ AppendOf(k).n >= 1
        /\ BlockOf(k).height # 0
        /\ BlockOf(k).previousBlockHash # NoHash

\* C18: at the step that resolves the promise of submitStar with a block,
\* the block is already in the chain and the height counter is its height.
C18_ResolvedBlockIsCommitted ==
    [][ (Len(calls') = Len(calls) + 1 /\ calls'[Len(calls')].promise.state = "resolved")
          => /\ \E i \in 1..Len(chain') : chain'[i].id = Len(calls')
             /\ height' = appends'[Len(calls') + 1].block.height ]_vars

\* C16: whenever the validateChain() run inside an _addBlock returns a
\* non-empty error list, that _addBlock rejects and its block is never
\* pushed, and the step that rejects leaves the chain and the height counter
\* as they were.
C16_RefusedAppendLeavesChain ==
    /\ [](\A k \in 1..Len(appends) :
            appends[k].errs # <<>>
                => /\ appends[k].st # "resolved"
                   /\ \A i \in 1..Len(chain) : chain[i].id # appends[k].block.id)
    /\ [][ \A k \in 1..Len(appends) :
             ( /\ appends[k].st = "validating"
               /\ appends[k].idx = appends[k].n
               /\ appends[k].errs # <<>>
               /\ appends'[k] # appends[k] )
                 => /\ appends'[k].st = "rejected"
                    /\ chain' = chain
                    /\ height' = height ]_vars

\* an _addBlock has been refused
C16_Witness ==
    \E k \in 1..Len(appends) : appends[k].st = "rejected" /\ appends[k].errs # <<>>

\* C17: when a call passes verification and its append is refused because
\* validateChain reports errors, the promise of submitStar rejects.
C17_RefusalSurfaced ==
    \A k \in CallIds :
        (calls[k].verdict = "true" /\ AppendOf(k).st = "rejected")
            => calls[k].promise.state = "rejected"

\* how often e occurs in the list errs
Count(errs, e) == Cardinality({j \in 1..Len(errs) : errs[j] = e})

\* errs has exactly one entry for each block of ch whose self-check fails
\* and one for each block at index > 0 whose previousBlockHash is not the
\* hash of the block before it, nothing else, in ascending block index
CompleteErrorList(ch, errs) ==
    /\ \A i \in 1..Len(ch) :
          /\ Count(errs, [idx |-> i - 1, msg |-> "Block not valid"])
                = IF Validate(ch[i]) THEN 0 ELSE 1
          /\ Count(errs, [idx |-> i - 1, msg |-> "Incompatible previous hash"])
                = IF i > 1 /\ ch[i].previousBlockHash # ch[i-1].hash THEN 1 ELSE 0
    /\ Len(errs) = Cardinality({i \in 1..Len(ch) : ~Validate(ch[i])})
                   + Cardinality({i \in 2..Len(ch) : ch[i].previousBlockHash # ch[i-1].hash})
    /\ \A a, b \in 1..Len(errs) : a < b => errs[a].idx <= errs[b].idx
    /\ (errs = <<>>) <=>
          /\ \A i \in 1..Len(ch) : Validate(ch[i])
          /\ \A i \in 2..Len(ch) : ch[i].previousBlockHash = ch[i-1].hash

\* C19: validateChain() does not stop at the first defect: the list it
\* resolves with is the complete list of defects, in ascending block index,
\* and is empty iff there is none.  For a call made in any state, and for
\* the calls the callers made (no block being corrupted during the walk).
C19_CompleteOrderedErrors ==
    /\ CompleteErrorList(chain, ValidateChain(chain))
    /\ ( /\ audit.st = "done"
         /\ \/ Tampered = {}
            \/ (audit.target # 0 /\ Tampered = {audit.target}) )
          => CompleteErrorList(SubSeq(chain, 1, audit.n), audit.errs)

\* a chain with a corrupted block and at least two defects, and a finished
\* validateChain() call that reported errors
C19_Witness ==
    /\ Tampered # {}
    /\ Len(ValidateChain(chain)) >= 2
    /\ \E i \in 2..Len(chain) : ~Validate(chain[i]) /\ chain[i].previousBlockHash # chain[i-1].hash
    /\ audit.st = "done"
    /\ audit.errs # <<>>

\* the decoded stars of the committed non-Genesis blocks of ch whose decoded
\* owner is the address, in chain order
StarsOwnedBy(ch, address) ==
    LET claims == SelectSeq(ch, LAMBDA b : Decode(b.body) # GenesisData)
        owned == SelectSeq(claims, LAMBDA b : Decode(b.body).owner = address)
    IN  [j \in 1..Len(owned) |-> Decode(owned[j].body).star]

\* C12: getStarsByWalletAddress(A) resolves with exactly the decoded stars
\* of the committed non-Genesis blocks whose decoded owner is A, one entry
\* per block, in chain order (the chain as it is when the call resolves).
C12_StarsOfOwner ==
    [][ (read' # read /\ read'.op = "getStars" /\ read'.st = "done")
          => read'.out = StarsOwnedBy(chain', read'.arg) ]_vars

\* C13: getBlockByHash(h) resolves with a committed block whose hash is h
\* when there is one and rejects with 'Hash not found' when there is none;
\* the chain and the height counter are unchanged.
C13_GetBlockByHash ==
    [][ (read' # read /\ read'.op = "getBlockByHash")
          => LET hits == {i \in 1..Len(chain) : chain[i].hash = read'.arg}
             IN  /\ chain' = chain
                 /\ height' = height
                 /\ read'.st = "done"
                 /\ IF hits = {}
                    THEN read'.promise = Rejected("Hash not found")
                    ELSE /\ read'.promise = Resolved
                         /\ \E i \in hits : read'.out = << chain[i] >> ]_vars

\* a lookup that found the block of a claim, in a chain where another
\* block built so far is not committed (its hash would not be found)
C13_Witness ==
    /\ read.op = "getBlockByHash"
    /\ read.promise = Resolved
    /\ read.out # <<>>
    /\ read.out[1].hash = read.arg
    /\ Decode(read.out[1].body) # GenesisData
    /\ \E h \in KnownHashes : \A i \in 1..Len(chain) : chain[i].hash # h

\* C20: across every step of every operation, the chain before the step is
\* a prefix of the chain after it: no committed block is removed, moved,
\* replaced or changed.
C20_AppendOnly ==
    [][ /\ Len(chain') >= Len(chain)
        /\ SubSeq(chain', 1, Len(chain)) = chain ]_vars

\* a chain of the Genesis Block and two claims, and a finished read
C20_Witness ==
    /\ Len(chain) >= 3
    /\ read.st = "done"

====
